---- MODULE Spec2Model ----
(***************************************************************************)
(* Model of ZipExtractor/extract_zips.py: main(base_dir,                   *)
(* extract_into_subfolder) run over a small file system, possibly several  *)
(* times in succession over the same root.                                 *)
(*                                                                         *)
(* A name is a sequence of characters, a path is a sequence of names       *)
(* relative to base_dir (the empty path is base_dir itself), and the file  *)
(* system is a function from the existing paths to nodes.                  *)
(***************************************************************************)
EXTENDS Integers, Sequences, FiniteSets, TLC

VARIABLES fs, extract_into_subfolder, pc, zip_paths, idx, total,
          extracted_count, skipped_count, extract_dir, log, out, exit_code,
          uncaught, run, dir_order, fsRun

vars == <<fs, extract_into_subfolder, pc, zip_paths, idx, total,
          extracted_count, skipped_count, extract_dir, log, out, exit_code,
          uncaught, run, dir_order, fsRun>>

(* Number of successive invocations of the tool over the same root. *)
MaxRuns == 2

---------------------------------------------------------------------------
(* Names and paths *)

ZipSuffix == <<".", "z", "i", "p">>
NameA == <<"a">>
NameB == <<"b">>
NameC == <<"c">>
NameX == <<"x">>
NameY == <<"y">>
AZip == NameA \o ZipSuffix
BZip == NameB \o ZipSuffix
CZip == NameC \o ZipSuffix
CZipZip == CZip \o ZipSuffix
DotZip == ZipSuffix

Root == << >>
Parent(p) == SubSeq(p, 1, Len(p) - 1)
Name(p) == p[Len(p)]

EndsWith(s, suf) ==
  /\ Len(s) >= Len(suf)
  /\ SubSeq(s, Len(s) - Len(suf) + 1, Len(s)) = suf

IsPrefix(p, q) == Len(p) <= Len(q) /\ SubSeq(q, 1, Len(p)) = p

SetMax(S) == CHOOSE m \in S : \A n \in S : n <= m

(* str.rfind('.') shifted to 1-based positions: 0 when there is no dot *)
RFindDot(name) ==
  LET S == {j \in 1..Len(name) : name[j] = "."}
  IN IF S = {} THEN 0 ELSE SetMax(S)

(* PurePath.suffix: the last dot counts only if it is neither the first *)
(* nor the last character of the name                                   *)
Suffix(name) ==
  LET j == RFindDot(name)
  IN IF j > 1 /\ j < Len(name) THEN SubSeq(name, j, Len(name)) ELSE << >>

(* zpath.with_suffix("") *)
WithSuffixEmpty(p) ==
  LET name == Name(p)
      old == Suffix(name)
      new == IF old = << >> THEN name
             ELSE SubSeq(name, 1, Len(name) - Len(old))
  IN Append(Parent(p), new)

(* lines 35-38 *)
ExtractDir(zpath, subfolder) ==
  IF subfolder THEN WithSuffixEmpty(zpath) ELSE Parent(zpath)

---------------------------------------------------------------------------
(* File system *)

NoData == [fault |-> "badzip", entries |-> << >>, tag |-> 0]
DirNode == [kind |-> "dir", readable |-> TRUE, data |-> NoData]
FileNode(d) == [kind |-> "file", readable |-> TRUE, data |-> d]

Exists(f, p) == p \in DOMAIN f
IsDir(f, p) == p \in DOMAIN f /\ f[p].kind = "dir"
IsFile(f, p) == p \in DOMAIN f /\ f[p].kind = "file"

Put(f, p, node) == [q \in DOMAIN f \cup {p} |-> IF q = p THEN node ELSE f[q]]

(* os.mkdir(d) *)
OsMkdir(f, d) ==
  IF Exists(f, d) THEN [fs |-> f, exc |-> "FileExistsError"]
  ELSE IF Len(d) > 0 /\ ~Exists(f, Parent(d))
       THEN [fs |-> f, exc |-> "FileNotFoundError"]
  ELSE IF Len(d) > 0 /\ ~IsDir(f, Parent(d))
       THEN [fs |-> f, exc |-> "NotADirectoryError"]
  ELSE [fs |-> Put(f, d, DirNode), exc |-> "none"]

(* the mkdir call of line 40 left out *)
MkdirSkipped(f, d) == [fs |-> f, exc |-> "none"]

(* Path.mkdir(parents=True, exist_ok=True) *)
RECURSIVE Mkdir(_, _)
Mkdir(f, d) ==
  LET r == OsMkdir(f, d)
  IN IF r.exc = "none" THEN r
     ELSE IF r.exc = "FileNotFoundError"
          THEN LET pr == Mkdir(f, Parent(d))
               IN IF pr.exc # "none" THEN pr ELSE OsMkdir(pr.fs, d)
     ELSE IF IsDir(f, d) THEN [fs |-> f, exc |-> "none"]
     ELSE r

(* os.makedirs(d), exist_ok=False *)
RECURSIVE Makedirs(_, _)
Makedirs(f, d) ==
  IF Len(d) > 0 /\ ~Exists(f, Parent(d))
  THEN LET pr == Makedirs(f, Parent(d))
       IN IF pr.exc \notin {"none", "FileExistsError"} THEN pr
          ELSE OsMkdir(pr.fs, d)
  ELSE OsMkdir(f, d)

(* open(targetpath, "wb") followed by the copy of the member's bytes *)
WriteFile(f, target, d) ==
  IF IsDir(f, target) THEN [fs |-> f, exc |-> "IsADirectoryError"]
  ELSE IF ~IsDir(f, Parent(target))
       THEN [fs |-> f, exc |-> "NotADirectoryError"]
  ELSE [fs |-> Put(f, target, FileNode(d)), exc |-> "none"]

(* ZipFile._extract_member for a file entry *)
ExtractMember(f, dir, e) ==
  LET target == dir \o e.path
      upper == Parent(target)
      up == IF ~Exists(f, upper) THEN Makedirs(f, upper)
            ELSE [fs |-> f, exc |-> "none"]
  IN IF up.exc # "none" THEN up ELSE WriteFile(up.fs, target, e.data)

(* ZipFile.extractall(path=dir): members in archive order, the first *)
(* failure stops the extraction and keeps what was already written   *)
RECURSIVE ExtractAll(_, _, _)
ExtractAll(f, dir, entries) ==
  IF entries = << >> THEN [fs |-> f, exc |-> "none"]
  ELSE LET r == ExtractMember(f, dir, Head(entries))
       IN IF r.exc # "none" THEN r ELSE ExtractAll(r.fs, dir, Tail(entries))

---------------------------------------------------------------------------
(* Archives and the try block of main *)

NoBadFile == << >>

(* zipfile.ZipFile(zpath, 'r'): open the file, then read its directory *)
OpenZip(f, zpath) ==
  IF f[zpath].kind = "dir" THEN "IsADirectoryError"
  ELSE IF ~f[zpath].readable THEN "PermissionError"
  ELSE IF f[zpath].data.fault = "badzip" THEN "BadZipFile"
  ELSE "none"

(* zf.testzip(): the name of the first bad member, or None; reading a *)
(* member may raise instead                                           *)
TestZip(d) ==
  IF d.fault = "encrypted" THEN [exc |-> "RuntimeError", bad_file |-> NoBadFile]
  ELSE IF d.fault = "badmethod"
       THEN [exc |-> "NotImplementedError", bad_file |-> NoBadFile]
  ELSE IF d.fault = "crc"
       THEN [exc |-> "none", bad_file |-> Head(d.entries).path]
  ELSE [exc |-> "none", bad_file |-> NoBadFile]

(* the continue of line 49 left out: a corrupt archive is extracted anyway *)
TryBodyExtractsCorrupt(f, zpath, dir) ==
  LET o == OpenZip(f, zpath)
  IN IF o # "none" THEN [fs |-> f, result |-> o]
     ELSE LET t == TestZip(f[zpath].data)
              x == ExtractAll(f, dir, f[zpath].data.entries)
          IN IF t.exc # "none" THEN [fs |-> f, result |-> t.exc]
             ELSE IF t.bad_file # NoBadFile
                  THEN [fs |-> x.fs, result |-> "corrupt"]
             ELSE [fs |-> x.fs,
                   result |-> IF x.exc = "none" THEN "ok" ELSE x.exc]

(* lines 43-52: the outcome of the with block and the file system it leaves *)
TryBody(f, zpath, dir) ==
  LET o == OpenZip(f, zpath)
  IN IF o # "none" THEN [fs |-> f, result |-> o]
     ELSE LET t == TestZip(f[zpath].data)
          IN IF t.exc # "none" THEN [fs |-> f, result |-> t.exc]
             ELSE IF t.bad_file # NoBadFile
                  THEN [fs |-> f, result |-> "corrupt"]
             ELSE LET x == ExtractAll(f, dir, f[zpath].data.entries)
                  IN [fs |-> x.fs,
                      result |-> IF x.exc = "none" THEN "ok" ELSE x.exc]

(* the classes an exception is an instance of *)
Bases(exc) ==
  CASE exc = "BadZipFile" -> {"BadZipFile", "Exception"}
    [] exc = "RuntimeError" -> {"RuntimeError", "Exception"}
    [] exc = "NotImplementedError" ->
         {"NotImplementedError", "RuntimeError", "Exception"}
    [] exc = "PermissionError" -> {"PermissionError", "OSError", "Exception"}
    [] OTHER -> {exc, "OSError", "Exception"}

(* the PermissionError clause logging with logging.warning *)
HandlersPermissionAsWarning ==
  << [cls |-> "BadZipFile", level |-> "WARNING", event |-> "BadZipFile"],
     [cls |-> "RuntimeError", level |-> "WARNING", event |-> "RuntimeError"],
     [cls |-> "PermissionError", level |-> "WARNING", event |-> "PermissionError"],
     [cls |-> "Exception", level |-> "ERROR", event |-> "Unexpected"] >>

(* the except clauses of lines 57-69, in order *)
Handlers ==
  << [cls |-> "BadZipFile", level |-> "WARNING", event |-> "BadZipFile"],
     [cls |-> "RuntimeError", level |-> "WARNING", event |-> "RuntimeError"],
     [cls |-> "PermissionError", level |-> "ERROR", event |-> "PermissionError"],
     [cls |-> "Exception", level |-> "ERROR", event |-> "Unexpected"] >>

HandlerFor(exc) ==
  LET k == CHOOSE i \in 1..Len(Handlers) :
             /\ Handlers[i].cls \in Bases(exc)
             /\ \A j \in 1..(i - 1) : Handlers[j].cls \notin Bases(exc)
  IN Handlers[k]

(* the one log record each loop iteration emits *)
LogRecord(result, zpath) ==
  IF result = "ok"
  THEN [level |-> "INFO", event |-> "Extracted", zpath |-> zpath, exc |-> "none"]
  ELSE IF result = "corrupt"
  THEN [level |-> "WARNING", event |-> "CorruptedMember", zpath |-> zpath,
        exc |-> "none"]
  ELSE [level |-> HandlerFor(result).level, event |-> HandlerFor(result).event,
        zpath |-> zpath, exc |-> result]

(* extracted_count += 1 moved after the try statement *)
ExtractedIncAlways(result) == 1

(* extracted_count += 1 on line 55 *)
ExtractedInc(result) == IF result = "ok" THEN 1 ELSE 0

(* skipped_count += 1 missing from the corrupt-member branch *)
SkippedIncMissesCorrupt(result) == IF result \in {"ok", "corrupt"} THEN 0 ELSE 1

(* skipped_count += 1 on lines 48, 59, 63, 66, 69 *)
SkippedInc(result) == IF result = "ok" THEN 0 ELSE 1

---------------------------------------------------------------------------
(* Discovery: base_dir.rglob("*.zip") *)

(* fnmatch of a name against "*.zip" *)
MatchesZip(name) == EndsWith(name, ZipSuffix)

RglobMatches(f) == {p \in DOMAIN f : p # Root /\ MatchesZip(Name(p))}

Perms(S) ==
  {s \in [1..Cardinality(S) -> S] :
     \A i, j \in 1..Cardinality(S) : i # j => s[i] # s[j]}

Pos(s, x) == CHOOSE i \in 1..Len(s) : s[i] = x
InSeq(s, x) == \E i \in 1..Len(s) : s[i] = x

(* a bottom-up walk: the matches of a directory come after the matches *)
(* of the directories below it                                         *)
BottomUp(s) ==
  \A i, j \in 1..Len(s) :
    (Parent(s[i]) # Parent(s[j]) /\ IsPrefix(Parent(s[i]), Parent(s[j])))
      => j < i

(* rglob walks top-down: the matches of a directory are yielded before *)
(* the matches of the directories below it                             *)
TopDown(s) ==
  \A i, j \in 1..Len(s) :
    (Parent(s[i]) # Parent(s[j]) /\ IsPrefix(Parent(s[i]), Parent(s[j])))
      => i < j

(* the OS lists the entries it has listed before in the same relative order *)
StableWith(s, before) ==
  \A i, j \in 1..Len(s) :
    (i < j /\ InSeq(before, s[i]) /\ InSeq(before, s[j]))
      => Pos(before, s[i]) < Pos(before, s[j])

RglobOrders(f, before) ==
  {s \in Perms(RglobMatches(f)) : TopDown(s) /\ StableWith(s, before)}

---------------------------------------------------------------------------
(* Initial trees *)

Plain(tag) == [fault |-> "badzip", entries |-> << >>, tag |-> tag]
Arc(fault, entries) == [fault |-> fault, entries |-> entries, tag |-> 0]
Entry(path, d) == [path |-> path, data |-> d]
Leaf(fault, tag) == Arc(fault, << Entry(<<NameX>>, Plain(tag)) >>)

(* archives that may sit at base_dir/a.zip *)
TopArcs ==
  {Leaf(f, 1) : f \in {"none", "crc", "encrypted", "badmethod"}}
    \cup {Plain(1),
          Arc("none", << Entry(<<BZip>>, Leaf("none", 2)) >>),
          Arc("none", << Entry(<<NameB, NameX>>, Plain(2)) >>),
          Arc("none", << Entry(<<NameB>>, Plain(1)) >>),
          Arc("none", << Entry(<<NameX>>, Plain(1)),
                         Entry(<<NameX, NameY>>, Plain(2)) >>)}

SlotA ==
  {{}, {<< <<AZip>>, DirNode >>},
   {<< <<AZip>>, [kind |-> "file", readable |-> FALSE, data |-> Leaf("none", 1)] >>}}
    \cup {{<< <<AZip>>, FileNode(d) >>} : d \in TopArcs}

SlotS ==
  {{}, {<< <<NameA>>, FileNode(Plain(1)) >>}, {<< <<NameA>>, DirNode >>}}
    \cup {{<< <<NameA>>, DirNode >>, << <<NameA, BZip>>, FileNode(Leaf(f, 1)) >>} :
            f \in {"none", "crc"}}

SlotC ==
  {{}, {<< <<CZipZip>>, FileNode(Leaf("none", 1)) >>},
   {<< <<DotZip>>, FileNode(Leaf("none", 1)) >>}}
    \cup {{<< <<CZip>>, FileNode(d) >>} : d \in {Leaf("none", 1), Leaf("crc", 1), Plain(2)}}

MkFs(pairs) ==
  [p \in {pr[1] : pr \in pairs} |-> (CHOOSE pr \in pairs : pr[1] = p)[2]]

Trees ==
  {MkFs({<<Root, DirNode>>} \cup a \cup s \cup c) : a \in SlotA, s \in SlotS, c \in SlotC}
    \cup {MkFs({})}

---------------------------------------------------------------------------
(* The program *)

Line(text, n) == [text |-> text, n |-> n]

Init ==
  /\ fs \in Trees
  /\ extract_into_subfolder \in BOOLEAN
  /\ pc = "start"
  /\ zip_paths = << >>
  /\ idx = 1
  /\ total = 0
  /\ extracted_count = 0
  /\ skipped_count = 0
  /\ extract_dir = Root
  /\ log = << >>
  /\ out = << >>
  /\ exit_code = -1
  /\ uncaught = "none"
  /\ run = 1
  /\ dir_order = << >>
  /\ fsRun = <<fs>>

(* lines 16-18: base_dir does not exist *)
MissingBaseDir ==
  /\ pc = "start"
  /\ ~Exists(fs, Root)
  /\ out' = Append(out, Line("Error: base directory does not exist", 0))
  /\ exit_code' = 1
  /\ pc' = "exited"
  /\ UNCHANGED <<fs, extract_into_subfolder, zip_paths, idx, total,
                 extracted_count, skipped_count, extract_dir, log, uncaught,
                 run, dir_order, fsRun>>

(* lines 21-25: the scan finds nothing *)
NoZipFound ==
  /\ pc = "start"
  /\ Exists(fs, Root)
  /\ \E s \in RglobOrders(fs, dir_order) :
       /\ s = << >>
       /\ zip_paths' = s
  /\ out' = Append(out, Line("No .zip files found", 0))
  /\ exit_code' = 0
  /\ pc' = "exited"
  /\ UNCHANGED <<fs, extract_into_subfolder, idx, total, extracted_count,
                 skipped_count, extract_dir, log, uncaught, run, dir_order,
                 fsRun>>

(* lines 21-29: the scan finds archives and the counters are set up *)
BeginLoop ==
  /\ pc = "start"
  /\ Exists(fs, Root)
  /\ \E s \in RglobOrders(fs, dir_order) :
       /\ s # << >>
       /\ zip_paths' = s
       /\ dir_order' = s
       /\ total' = Len(s)
  /\ extracted_count' = 0
  /\ skipped_count' = 0
  /\ idx' = 1
  /\ pc' = "loop"
  /\ UNCHANGED <<fs, extract_into_subfolder, extract_dir, log, out, exit_code,
                 uncaught, run, fsRun>>

(* lines 31-40: next archive, its destination, mkdir succeeds *)
MkdirDest ==
  /\ pc = "loop"
  /\ idx <= Len(zip_paths)
  /\ LET d == ExtractDir(zip_paths[idx], extract_into_subfolder)
         r == Mkdir(fs, d)
     IN /\ r.exc = "none"
        /\ extract_dir' = d
        /\ fs' = r.fs
  /\ pc' = "try"
  /\ UNCHANGED <<extract_into_subfolder, zip_paths, idx, total,
                 extracted_count, skipped_count, log, out, exit_code, uncaught,
                 run, dir_order, fsRun>>

(* lines 31-40: mkdir raises outside the try block; the exception leaves *)
(* main and the interpreter exits with status 1                          *)
MkdirRaises ==
  /\ pc = "loop"
  /\ idx <= Len(zip_paths)
  /\ LET d == ExtractDir(zip_paths[idx], extract_into_subfolder)
         r == Mkdir(fs, d)
     IN /\ r.exc # "none"
        /\ extract_dir' = d
        /\ fs' = r.fs
        /\ uncaught' = r.exc
  /\ exit_code' = 1
  /\ pc' = "exited"
  /\ UNCHANGED <<extract_into_subfolder, zip_paths, idx, total,
                 extracted_count, skipped_count, log, out, run, dir_order,
                 fsRun>>

(* lines 42-69: the try block and its except clauses *)
TryExtract ==
  /\ pc = "try"
  /\ LET zpath == zip_paths[idx]
         r == TryBody(fs, zpath, extract_dir)
     IN /\ fs' = r.fs
        /\ log' = Append(log, LogRecord(r.result, zpath))
        /\ extracted_count' = extracted_count + ExtractedInc(r.result)
        /\ skipped_count' = skipped_count + SkippedInc(r.result)
  /\ idx' = idx + 1
  /\ pc' = "loop"
  /\ UNCHANGED <<extract_into_subfolder, zip_paths, total, extract_dir, out,
                 exit_code, uncaught, run, dir_order, fsRun>>

(* lines 71-74: the summary, then main returns *)
PrintSummary ==
  /\ pc = "loop"
  /\ idx > Len(zip_paths)
  /\ out' = out \o << Line("", 0),
                      Line("Scanned", total),
                      Line("Successfully extracted", extracted_count),
                      Line("Skipped / failed", skipped_count) >>
  /\ exit_code' = 0
  /\ pc' = "exited"
  /\ UNCHANGED <<fs, extract_into_subfolder, zip_paths, idx, total,
                 extracted_count, skipped_count, extract_dir, log, uncaught,
                 run, dir_order, fsRun>>

(* the tool is invoked again over the same root with the same mode *)
Rerun ==
  /\ pc = "exited"
  /\ run < MaxRuns
  /\ run' = run + 1
  /\ fsRun' = Append(fsRun, fs)
  /\ pc' = "start"
  /\ zip_paths' = << >>
  /\ idx' = 1
  /\ total' = 0
  /\ extracted_count' = 0
  /\ skipped_count' = 0
  /\ extract_dir' = Root
  /\ log' = << >>
  /\ out' = << >>
  /\ exit_code' = -1
  /\ uncaught' = "none"
  /\ UNCHANGED <<fs, extract_into_subfolder, dir_order>>

Next ==
  \/ MissingBaseDir
  \/ NoZipFound
  \/ BeginLoop
  \/ MkdirDest
  \/ MkdirRaises
  \/ TryExtract
  \/ PrintSummary
  \/ Rerun

Spec == Init /\ [][Next]_vars

TypeOK ==
  /\ pc \in {"start", "loop", "try", "exited"}
  /\ run \in 1..MaxRuns
  /\ Len(fsRun) = run

---------------------------------------------------------------------------
(* Vocabulary of the properties *)

Fs0 == fsRun[run]
InRun == pc \in {"loop", "try", "exited"} /\ zip_paths # << >>
SummaryAt(i) ==
  /\ i + 2 <= Len(out)
  /\ out[i].text = "Scanned"
  /\ out[i + 1].text = "Successfully extracted"
  /\ out[i + 2].text = "Skipped / failed"
SummaryPrinted == \E i \in 1..Len(out) : SummaryAt(i)
Count(P(_)) == Cardinality({k \in 1..Len(log) : P(k)})
IsSkip(k) == log[k].level # "INFO"
IsExtract(k) == log[k].event = "Extracted"
ZipFilesOf(f) == {p \in RglobMatches(f) : IsFile(f, p)}
Below(f, d) == {p \in DOMAIN f : p # d /\ IsPrefix(d, p)}

(* the archive under the loop variable, as it is on disk right now *)
Current == fs[zip_paths[idx]]
CurrentIs(fault) ==
  Current.kind = "file" /\ Current.readable /\ Current.data.fault = fault
LastLog == log'[Len(log')]

---------------------------------------------------------------------------
(* C1: whenever the summary is printed, the reported number of scanned *)
(* archives equals the reported extracted count plus the reported      *)
(* skipped count.                                                      *)
C1_ScannedIsExtractedPlusSkipped ==
  \A i \in 1..Len(out) :
    out[i].text = "Scanned" =>
      /\ SummaryAt(i)
      /\ out[i].n = out[i + 1].n + out[i + 2].n

C1_Witness ==
  /\ pc = "exited"
  /\ \E i \in 1..Len(out) :
       SummaryAt(i) /\ out[i].n >= 2 /\ out[i + 1].n >= 1 /\ out[i + 2].n >= 1

(* C2: with an existing root, no failure while handling an archive aborts *)
(* the batch: the run exits 0 with no exception escaping, and when         *)
(* archives were discovered each of them was handled and the summary was   *)
(* printed.                                                                *)
C2_NoFailureAbortsBatch ==
  (pc = "exited" /\ Exists(Fs0, Root)) =>
    /\ exit_code = 0
    /\ uncaught = "none"
    /\ zip_paths # << >> => (SummaryPrinted /\ Len(log) = Len(zip_paths))

(* C3: a step that handles an archive whose testzip reports a bad member *)
(* writes nothing, adds one to skipped and nothing to extracted, and the  *)
(* loop goes on; a step that handles a sound archive, wherever it falls   *)
(* relative to corrupt ones, extracts every entry and counts it as        *)
(* extracted unless the file system itself refuses a write.               *)
C3_CorruptStep ==
  (pc = "try" /\ CurrentIs("crc")) =>
    /\ fs' = fs
    /\ skipped_count' = skipped_count + 1
    /\ extracted_count' = extracted_count
    /\ LastLog.event = "CorruptedMember"
    /\ pc' = "loop" /\ idx' = idx + 1 /\ exit_code' = exit_code

C3_SoundStep ==
  (pc = "try" /\ CurrentIs("none")) =>
    /\ pc' = "loop" /\ idx' = idx + 1
    /\ \/ /\ LastLog.event = "Extracted"
          /\ extracted_count' = extracted_count + 1
          /\ skipped_count' = skipped_count
          /\ \A i \in 1..Len(Current.data.entries) :
               LET e == Current.data.entries[i]
               IN /\ Exists(fs', extract_dir \o e.path)
                  /\ fs'[extract_dir \o e.path] = FileNode(e.data)
       \/ /\ LastLog.exc \in {"IsADirectoryError", "NotADirectoryError"}
          /\ extracted_count' = extracted_count
          /\ skipped_count' = skipped_count + 1

C4_DestFollowsMode ==
  (pc = "try" \/ (pc = "exited" /\ uncaught # "none")) =>
    LET z == zip_paths[idx]
    IN IF extract_into_subfolder
       THEN /\ Parent(extract_dir) = Parent(z)
            /\ Name(extract_dir) \o ZipSuffix = Name(z)
            /\ pc = "try" => IsDir(fs, extract_dir)
       ELSE /\ extract_dir = Parent(z)
            /\ pc = "try" => IsDir(fs, extract_dir)

C6_NoZipFilesNoMutation ==
  (pc = "exited" /\ Exists(Fs0, Root) /\ ZipFilesOf(Fs0) = {}) =>
    /\ out = << Line("No .zip files found", 0) >>
    /\ exit_code = 0
    /\ fs = Fs0

(* C7: the exit code is non-zero exactly when the root does not exist, *)
(* and in that case nothing was scanned, handled or written.           *)
C7_NonZeroOnlyForMissingRoot ==
  pc = "exited" =>
    /\ (exit_code # 0) <=> ~Exists(Fs0, Root)
    /\ ~Exists(Fs0, Root) => (fs = Fs0 /\ zip_paths = << >> /\ log = << >>)

(* C8 as stated: after each loop iteration total = extracted + skipped. *)
C8_TallyAfterEachIteration ==
  (pc = "loop" /\ idx > 1) => total = extracted_count + skipped_count

(* C8 amended: after each loop iteration extracted + skipped is the     *)
(* number of archives handled so far, which never exceeds total, and    *)
(* total = extracted + skipped holds once the last archive was handled. *)
C8_TallyCountsHandled ==
  InRun =>
    /\ extracted_count + skipped_count = idx - 1
    /\ total = Len(zip_paths)
    /\ idx - 1 <= total
    /\ idx > Len(zip_paths) => total = extracted_count + skipped_count

C8_Witness ==
  /\ pc = "loop" /\ idx = 2 /\ total = 3
  /\ extracted_count + skipped_count = 1

(* C9: every exception caught by the try block is logged by exactly the *)
(* clause of its class (BadZipFile, RuntimeError, PermissionError, any   *)
(* other), at warning level for the first two and error level for the    *)
(* last two, and counts once as skipped and never as extracted.          *)
C9_FailureClasses ==
  InRun =>
    /\ \A k \in 1..Len(log) :
         log[k].exc # "none" =>
           /\ log[k].event =
                (IF log[k].exc = "BadZipFile" THEN "BadZipFile"
                 ELSE IF log[k].exc \in {"RuntimeError", "NotImplementedError"}
                      THEN "RuntimeError"
                 ELSE IF log[k].exc = "PermissionError" THEN "PermissionError"
                 ELSE "Unexpected")
           /\ log[k].level =
                (IF log[k].event \in {"PermissionError", "Unexpected"}
                 THEN "ERROR" ELSE "WARNING")
    /\ skipped_count = Count(IsSkip)
    /\ extracted_count = Count(IsExtract)
    /\ \A k \in 1..Len(log) : IsSkip(k) # IsExtract(k)

C9_Witness ==
  /\ pc = "exited"
  /\ \E j, k \in 1..Len(log) :
       /\ log[j].event = "PermissionError" /\ log[j].level = "ERROR"
       /\ log[k].event = "BadZipFile" /\ log[k].level = "WARNING"
  /\ skipped_count >= 2

(* C10: in subfolder mode the destination is a directory before the     *)
(* archive is opened, and it is still one after every archive handled,  *)
(* extracted or skipped.                                                *)
C10_DestExistsWhateverOutcome ==
  (InRun /\ extract_into_subfolder) =>
    /\ pc = "try" => IsDir(fs, ExtractDir(zip_paths[idx], TRUE))
    /\ \A k \in 1..Len(log) : IsDir(fs, ExtractDir(zip_paths[k], TRUE))

C10_Witness ==
  /\ InRun /\ extract_into_subfolder /\ run = 1
  /\ \E k \in 1..Len(log) :
       LET d == ExtractDir(zip_paths[k], TRUE)
       IN /\ IsSkip(k)
          /\ ~Exists(Fs0, d)
          /\ IsDir(fs, d)
          /\ Below(fs, d) = {}

====
